---- MODULE Spec2Model ----
(***************************************************************************)
(* Model of telemetry_posthog.py (qodex-ai/apimesh): configuration         *)
(* resolution from the environment, the installation-id store kept in a    *)
(* JSON config file, event capture with fire-and-forget delivery on a      *)
(* background thread, and the stage timing scope.                          *)
(*                                                                         *)
(* Python values are records [tag, n, s]; Python strings that the code     *)
(* strips or concatenates are tuples of one-character strings; a dict is a *)
(* function from key strings to values.                                    *)
(***************************************************************************)
EXTENDS Integers, Sequences, FiniteSets, TLC

\* ---------------------------------------------------------------- bounds
\* background tasks one behaviour may start
MaxTasks == 1
\* sequential / concurrent calls of the installation-id getter
MaxCalls == 3
\* caller threads racing on the same config path
NumThreads == 2

\* ---------------------------------------------------------------- values
V(tag, n, s) == [tag |-> tag, n |-> n, s |-> s]
PyNone == V("none", 0, "")
PyBool(b) == V("bool", IF b THEN 1 ELSE 0, "")
PyInt(k) == V("int", k, "")
PyStr(x) == V("str", 0, x)
\* a value json.dumps cannot serialise (e.g. a set)
PyUnserializable == V("set", 0, "")
\* str(uuid.uuid4()): the k-th draw of the process
Uuid(k) == V("str", k, "uuid4")

\* Python truthiness, as used by `if not iid`, `x or y`, `if extra`
Truthy(v) ==
    CASE v.tag = "none" -> FALSE
      [] v.tag = "bool" -> v.n = 1
      [] v.tag = "int" -> v.n # 0
      [] v.tag = "str" -> v.s # ""
      [] OTHER -> TRUE

EmptyDict == << >>
DictGet(d, k) == IF k \in DOMAIN d THEN d[k] ELSE PyNone
DictSet(d, k, v) == [x \in (DOMAIN d) \cup {k} |-> IF x = k THEN v ELSE d[x]]
\* dict.update
DictUpdate(d, e) == [x \in (DOMAIN d) \cup (DOMAIN e) |-> IF x \in DOMAIN e THEN e[x] ELSE d[x]]

\* no exception / an exception of a kind with a message
NoExc == [kind |-> "", msg |-> ""]
Exc(kind, msg) == [kind |-> kind, msg |-> msg]

\* ---------------------------------------------------------------- strings
RECURSIVE LStrip(_)
LStrip(s) == IF s # << >> /\ Head(s) = " " THEN LStrip(Tail(s)) ELSE s
RECURSIVE RStripChar(_, _)
RStripChar(s, c) ==
    IF s # << >> /\ s[Len(s)] = c THEN RStripChar(SubSeq(s, 1, Len(s) - 1), c) ELSE s
\* str.strip()
Strip(s) == RStripChar(LStrip(s), " ")
\* `a or b` on strings
StrOr(a, b) == IF a # << >> THEN a ELSE b

\* an environment variable: unset, or set to a string
Unset == [set |-> FALSE, val |-> << >>]
SetTo(s) == [set |-> TRUE, val |-> s]
\* os.getenv(name, "")
GetenvOrEmpty(v) == IF v.set THEN v.val ELSE << >>

\* ---------------------------------------------------------------- config store
IdKey == "telemetry_install_id"
OtherKey == "workspace"

\* the config file: present or not, permissions, and what its text parses to
File(exists, readable, writable, kind, obj) ==
    [exists |-> exists, readable |-> readable, writable |-> writable, kind |-> kind, obj |-> obj]

\* _load_json
LoadJson(s) ==
    IF s.exists /\ s.readable /\ s.kind # "malformed"
    THEN [kind |-> s.kind, obj |-> s.obj]
    ELSE [kind |-> "object", obj |-> EmptyDict]

\* open(path, "w"): the file exists and is empty (which is not JSON)
OpenTrunc(s) ==
    [s EXCEPT !.exists = TRUE, !.readable = IF s.exists THEN s.readable ELSE TRUE,
              !.kind = "malformed", !.obj = EmptyDict]
\* the write of the serialised object into the opened file
WriteText(s, obj) == [s EXCEPT !.kind = "object", !.obj = obj]

\* a save that never reaches the file
SaveJsonSkipped(s, obj) == s
\* _save_json
SaveJson(s, obj) == IF s.writable THEN WriteText(OpenTrunc(s), obj) ELSE s

\* a getter that takes every stored id for missing
KeepsNothing(v) == FALSE
\* the test `if not iid` of _get_or_create_install_id, as "iid is kept"
KeepsId(v) == Truthy(v)

\* _get_or_create_install_id: the store and uuid counter after the call, the
\* exception it raises (if any) and the id it returns
GetOrCreateInstallId(s, n) ==
    LET cfg == LoadJson(s) IN
    IF cfg.kind # "object"
    THEN [store |-> s, nextId |-> n, ret |-> PyNone,
          raised |-> Exc("AttributeError", "no attribute 'get'")]
    ELSE LET iid == DictGet(cfg.obj, IdKey) IN
         IF KeepsId(iid)
         THEN [store |-> s, nextId |-> n, ret |-> iid, raised |-> NoExc]
         ELSE [store |-> SaveJson(s, DictSet(cfg.obj, IdKey, Uuid(n))),
               nextId |-> n + 1, ret |-> Uuid(n), raised |-> NoExc]

\* ---------------------------------------------------------------- configuration
DEFAULT_POSTHOG_API_KEY == <<"p", "h", "c">>
DEFAULT_POSTHOG_HOST == <<"u", "s">>
DEFAULT_TELEMETRY_ENABLED == TRUE

\* a flag that ignores APIMESH_TELEMETRY
EnvFlagIgnored(e) == TRUE
\* a flag that only "0" turns off
EnvFlagLenient(e) == e.telemetry.val # <<"0">>
\* from_env, line 84: the flag read from APIMESH_TELEMETRY
EnvFlag(e) ==
    IF ~e.telemetry.set THEN DEFAULT_TELEMETRY_ENABLED ELSE e.telemetry.val = <<"1">>

\* from_env, lines 86-90
EnvApiKey(e) ==
    StrOr(Strip(GetenvOrEmpty(e.key)),
          StrOr(Strip(GetenvOrEmpty(e.defkey)), DEFAULT_POSTHOG_API_KEY))

\* from_env, lines 91-95
EnvHost(e) ==
    StrOr(Strip(GetenvOrEmpty(e.host)),
          StrOr(Strip(GetenvOrEmpty(e.defhost)), DEFAULT_POSTHOG_HOST))

\* PostHogTelemetry.from_env
FromEnv(e) ==
    [enabled |-> EnvFlag(e) /\ EnvApiKey(e) # << >>,
     api_key |-> EnvApiKey(e),
     host |-> EnvHost(e)]

\* PostHogTelemetry._endpoint
Endpoint(t) == RStripChar(t.host, "/") \o <<"/", "i", "/", "v", "0", "/", "e", "/">>

\* ---------------------------------------------------------------- capture
\* an optional dict argument (None or a dict)
OptNone == [some |-> FALSE, d |-> EmptyDict]
Opt(d) == [some |-> TRUE, d |-> d]
\* truthiness of an optional dict: None and {} are falsy
DictTruthy(o) == o.some /\ DOMAIN o.d # {}

\* _now_iso
NowIso == PyStr("now")

\* a thread created and started by _run_in_background(_safe_post_json, url, payload)
NewTask(url, payload) ==
    [url |-> url, payload |-> payload, st |-> "started", posts |-> 0, outcome |-> ""]

\* whether json.dumps(payload) succeeds
Serializable(payload) == \A k \in DOMAIN payload.properties : payload.properties[k].tag # "set"

\* a capture without the `if not self.enabled` test
CaptureResNoGate(t, s, n, event, properties, timestamp) ==
    LET g == GetOrCreateInstallId(s, n) IN
    [store |-> g.store, nextId |-> g.nextId, raised |-> g.raised,
     started |-> IF g.raised # NoExc THEN << >>
                 ELSE <<NewTask(Endpoint(t),
                                [api_key |-> t.api_key, distinct_id |-> g.ret, event |-> event,
                                 properties |-> EmptyDict, timestamp |-> NowIso])>>]
\* PostHogTelemetry.capture: the store and uuid counter after the call, the
\* exception it raises (if any) and the threads it started
CaptureRes(t, s, n, event, properties, timestamp) ==
    IF ~t.enabled
    THEN [store |-> s, nextId |-> n, raised |-> NoExc, started |-> << >>]
    ELSE LET g == GetOrCreateInstallId(s, n) IN
         IF g.raised # NoExc
         THEN [store |-> g.store, nextId |-> g.nextId, raised |-> g.raised, started |-> << >>]
         ELSE LET payload ==
                      [api_key |-> t.api_key,
                       distinct_id |-> g.ret,
                       event |-> event,
                       properties |-> IF DictTruthy(properties) THEN properties.d ELSE EmptyDict,
                       timestamp |-> IF Truthy(timestamp) THEN timestamp ELSE NowIso]
              IN [store |-> g.store, nextId |-> g.nextId, raised |-> NoExc,
                  started |-> <<NewTask(Endpoint(t), payload)>>]

\* ---------------------------------------------------------------- stage
\* the outcome of the work wrapped by a stage: it completes, or raises an
\* exception that is (or is not) a subclass of Exception
WorkOk == [kind |-> "", msg |-> "", isException |-> TRUE]
WorkRaises(kind, msg, isException) == [kind |-> kind, msg |-> msg, isException |-> isException]

\* PostHogTelemetry.stage, from the end of the wrapped work on: the exception
\* that leaves the scope and the effects of the finally block
StageRes(t, s, n, run_id, name, extra, work, dt_ms) ==
    LET completed == work.kind = ""
        \* `ok` and `err_type` are assigned on completion and in `except Exception`
        assigned == completed \/ work.isException
        err_type == IF completed THEN PyNone ELSE PyStr(work.kind)
        pending == IF completed THEN NoExc ELSE Exc(work.kind, work.msg)
        base == [k \in {"run_id", "stage", "duration_ms", "success"} |->
                    CASE k = "run_id" -> PyStr(run_id)
                      [] k = "stage" -> PyStr(name)
                      [] k = "duration_ms" -> PyInt(dt_ms)
                      [] OTHER -> PyBool(completed)]
        withErr == IF Truthy(err_type) THEN DictSet(base, "error_type", err_type) ELSE base
        props == IF DictTruthy(extra) THEN DictUpdate(withErr, extra.d) ELSE withErr
        c == CaptureRes(t, s, n, "apimesh_stage_finished", Opt(props), PyNone)
    IN IF ~assigned
       THEN [store |-> s, nextId |-> n, started |-> << >>,
             raised |-> Exc("UnboundLocalError", "cannot access local variable 'ok'")]
       ELSE [store |-> c.store, nextId |-> c.nextId, started |-> c.started,
             raised |-> IF c.raised # NoExc THEN c.raised ELSE pending]

\* ---------------------------------------------------------------- state
VARIABLES
    env,        \* the process environment
    tel,        \* the PostHogTelemetry object built by from_env
    store,      \* the config file at cfg_path
    store0,     \* the config file as it was when the process started
    nextId,     \* number of the next uuid4 draw
    tasks,      \* the background threads started so far, in start order
    last,       \* the caller's last operation and how it ended
    rets,       \* ids returned by the installation-id getter, in return order
    thr,        \* the callers racing in _get_or_create_install_id
    persisted   \* every install id the config file has held

vars == <<env, tel, store, store0, nextId, tasks, last, rets, thr, persisted>>

\* ---------------------------------------------------------------- inputs
TelemetryVals == {Unset, SetTo(<<"1">>), SetTo(<<"0">>), SetTo(<< >>)}
KeyVals == {Unset, SetTo(<<" ">>), SetTo(<<" ", "k", " ">>)}
DefKeyVals == {Unset, SetTo(<<"d">>)}
HostVals == {Unset, SetTo(<<"h", "/">>)}
DefHostVals == {Unset, SetTo(<<" ">>)}

Envs ==
    [telemetry : TelemetryVals, key : KeyVals, defkey : DefKeyVals,
     host : HostVals, defhost : DefHostVals]
\* only APIMESH_TELEMETRY set or not
FlagEnvs ==
    {e \in Envs : e.telemetry \in {Unset, SetTo(<<"0">>)} /\ e.key = Unset /\ e.defkey = Unset
                  /\ e.host = Unset /\ e.defhost = Unset}

\* no variable of the environment set
PlainEnvs == {e \in FlagEnvs : e.telemetry = Unset}

\* JSON objects a config file may hold: with or without an install id (a
\* non-empty one, or a falsy empty string), with or without another key
PreId == PyStr("preexisting-id")
Objects ==
    {EmptyDict} \cup
    {[k \in {IdKey} |-> v] : v \in {PreId, PyStr("")}} \cup
    {[k \in {OtherKey} |-> PyStr("w")]} \cup
    {[k \in {IdKey, OtherKey} |-> IF k = IdKey THEN v ELSE PyStr("w")] : v \in {PreId, PyStr("")}}

\* every state of the config file: missing, or present with any permissions and
\* holding malformed text, a JSON value that is no object, or a JSON object
Stores ==
    {File(FALSE, TRUE, w, "object", EmptyDict) : w \in BOOLEAN} \cup
    {File(TRUE, r, w, "malformed", EmptyDict) : r \in BOOLEAN, w \in BOOLEAN} \cup
    {File(TRUE, r, w, "array", EmptyDict) : r \in BOOLEAN, w \in BOOLEAN} \cup
    {File(TRUE, r, w, "object", o) : r \in BOOLEAN, w \in BOOLEAN, o \in Objects}

\* the install id the file holds, if it holds one
StoredIds(s) ==
    IF s.exists /\ s.kind = "object" /\ Truthy(DictGet(s.obj, IdKey))
    THEN {s.obj[IdKey]} ELSE {}

PropInputs ==
    {OptNone, Opt([k \in {"n"} |-> PyInt(1)]), Opt([k \in {"bad"} |-> PyUnserializable])}
TsInputs == {PyNone, PyStr("t")}
Works ==
    {WorkOk, WorkRaises("ValueError", "m", TRUE), WorkRaises("KeyboardInterrupt", "", FALSE)}
Extras ==
    {OptNone, Opt([k \in {"team"} |-> PyStr("x")]),
     Opt([k \in {"success", "error_type"} |->
             IF k = "success" THEN PyBool(FALSE) ELSE PyStr("Custom")])}
DurationsMs == {0, 1}
Outcomes == {"ok", "timeout", "refused", "non2xx"}

NoOp == [op |-> "none", raised |-> NoExc, work |-> WorkOk, extra |-> OptNone, started |-> 0]
IdleThread == [pc |-> "idle", cfg |-> EmptyDict, iid |-> PyNone, seen |-> PyNone, wrote |-> FALSE]

InitWith(E, S) ==
    /\ env \in E
    /\ tel = FromEnv(env)
    /\ store \in S
    /\ store0 = store
    /\ nextId = 1
    /\ tasks = << >>
    /\ last = NoOp
    /\ rets = << >>
    /\ thr = [t \in 1..NumThreads |-> IdleThread]
    /\ persisted = StoredIds(store)

\* ---------------------------------------------------------------- caller operations
\* the caller calls capture(event, properties, timestamp)
CaptureWith(P, T) ==
    /\ Len(tasks) < MaxTasks
    /\ \E properties \in P, timestamp \in T :
         LET c == CaptureRes(tel, store, nextId, "apimesh_run", properties, timestamp) IN
         /\ store' = c.store
         /\ nextId' = c.nextId
         /\ tasks' = tasks \o c.started
         /\ last' = [op |-> "capture", raised |-> c.raised, work |-> WorkOk,
                     extra |-> OptNone, started |-> Len(c.started)]
         /\ persisted' = persisted \cup StoredIds(c.store)
    /\ UNCHANGED <<env, tel, store0, rets, thr>>

Capture == CaptureWith(PropInputs, TsInputs)

\* the caller runs work inside `with telemetry.stage(run_id, name, extra)`
Stage ==
    /\ Len(tasks) < MaxTasks
    /\ \E work \in Works, extra \in Extras, dt \in DurationsMs :
         LET r == StageRes(tel, store, nextId, "run", "scan", extra, work, dt) IN
         /\ store' = r.store
         /\ nextId' = r.nextId
         /\ tasks' = tasks \o r.started
         /\ last' = [op |-> "stage", raised |-> r.raised, work |-> work,
                     extra |-> extra, started |-> Len(r.started)]
         /\ persisted' = persisted \cup StoredIds(r.store)
    /\ UNCHANGED <<env, tel, store0, rets, thr>>

\* a background thread runs _safe_post_json(url, payload) to its end
BgRun(i) ==
    /\ i \in DOMAIN tasks
    /\ tasks[i].st = "started"
    /\ IF ~Serializable(tasks[i].payload)
       THEN tasks' = [tasks EXCEPT ![i].st = "done", ![i].outcome = "serialization_error"]
       ELSE \E o \in Outcomes :
              tasks' = [tasks EXCEPT ![i].st = "done", ![i].posts = @ + 1, ![i].outcome = o]
    /\ UNCHANGED <<env, tel, store, store0, nextId, last, rets, thr, persisted>>

Background == \E i \in 1..MaxTasks : BgRun(i)

Init == InitWith(FlagEnvs, Stores)
Next == Capture \/ Stage \/ Background
Spec == Init /\ [][Next]_vars

\* ---------------------------------------------------------------- configuration resolution
\* config files of the runs that vary the environment
EnvStores ==
    {File(FALSE, TRUE, TRUE, "object", EmptyDict),
     File(TRUE, TRUE, TRUE, "array", EmptyDict),
     File(TRUE, TRUE, FALSE, "object", [k \in {IdKey} |-> PreId])}

\* the caller calls capture(event) with the default arguments
CaptureDefault == CaptureWith({OptNone}, {PyNone})

InitEnv == InitWith(Envs, EnvStores)
NextEnv == CaptureDefault \/ Background
SpecEnv == InitEnv /\ [][NextEnv]_vars

\* ---------------------------------------------------------------- sequential getter calls
\* one call of _get_or_create_install_id(cfg_path) that runs alone
GetInstallId ==
    /\ Len(rets) < MaxCalls
    /\ LET g == GetOrCreateInstallId(store, nextId) IN
         /\ store' = g.store
         /\ nextId' = g.nextId
         /\ rets' = IF g.raised = NoExc THEN Append(rets, g.ret) ELSE rets
         /\ last' = [op |-> "get_id", raised |-> g.raised, work |-> WorkOk,
                     extra |-> OptNone, started |-> 0]
         /\ persisted' = persisted \cup StoredIds(g.store)
    /\ UNCHANGED <<env, tel, store0, tasks, thr>>

InitId == InitWith(PlainEnvs, Stores)
NextId == GetInstallId
SpecId == InitId /\ [][NextId]_vars

\* ---------------------------------------------------------------- concurrent getter calls
\* thread t runs lines 59-63: reads the file, looks the id up and, finding none,
\* draws a uuid and puts it in its copy of the config
TLoad(t) ==
    /\ thr[t].pc = "idle"
    /\ Len(rets) < MaxCalls
    /\ LET cfg == LoadJson(store)
           iid == DictGet(cfg.obj, IdKey)
       IN IF cfg.kind # "object"
          THEN /\ thr' = [thr EXCEPT ![t] = [IdleThread EXCEPT !.pc = "raised"]]
               /\ UNCHANGED <<nextId, rets>>
          ELSE IF KeepsId(iid)
          THEN /\ thr' = [thr EXCEPT ![t] = [pc |-> "done", cfg |-> cfg.obj, iid |-> iid,
                                             seen |-> iid, wrote |-> FALSE]]
               /\ rets' = Append(rets, iid)
               /\ UNCHANGED nextId
          ELSE /\ thr' = [thr EXCEPT ![t] = [pc |-> "save", iid |-> Uuid(nextId), seen |-> iid,
                                             cfg |-> DictSet(cfg.obj, IdKey, Uuid(nextId)),
                                             wrote |-> FALSE]]
               /\ nextId' = nextId + 1
               /\ UNCHANGED rets
    /\ UNCHANGED <<env, tel, store, store0, tasks, last, persisted>>

\* thread t, in _save_json, opens the file for writing: the file is truncated,
\* or the failure is swallowed and the getter returns
TOpen(t) ==
    /\ thr[t].pc = "save"
    /\ IF store.writable
       THEN /\ store' = OpenTrunc(store)
            /\ thr' = [thr EXCEPT ![t].pc = "write"]
            /\ UNCHANGED rets
       ELSE /\ thr' = [thr EXCEPT ![t].pc = "done"]
            /\ rets' = Append(rets, thr[t].iid)
            /\ UNCHANGED store
    /\ UNCHANGED <<env, tel, store0, nextId, tasks, last, persisted>>

\* thread t writes its copy of the config into the opened file and returns
TWrite(t) ==
    /\ thr[t].pc = "write"
    /\ store' = WriteText(store, thr[t].cfg)
    /\ persisted' = persisted \cup {thr[t].iid}
    /\ thr' = [thr EXCEPT ![t].pc = "done", ![t].wrote = TRUE]
    /\ rets' = Append(rets, thr[t].iid)
    /\ UNCHANGED <<env, tel, store0, nextId, tasks, last>>

\* thread t, its call over, is ready to call again
TAgain(t) ==
    /\ thr[t].pc \in {"done", "raised"}
    /\ thr' = [thr EXCEPT ![t] = IdleThread]
    /\ UNCHANGED <<env, tel, store, store0, nextId, tasks, last, rets, persisted>>

\* config files every caller can read
ReadableStores == {s \in Stores : s.readable}

InitConc == InitWith(PlainEnvs, ReadableStores)
NextConc == \E t \in 1..NumThreads : TLoad(t) \/ TOpen(t) \/ TWrite(t) \/ TAgain(t)
SpecConc == InitConc /\ [][NextConc]_vars

\* ---------------------------------------------------------------- properties
\* the exception the wrapped work raised, as the caller of the stage should see it
WorkExc(w) == IF w.kind = "" THEN NoExc ELSE Exc(w.kind, w.msg)
\* the keys of the JSON object the file holds
FileKeys(s) == IF s.exists /\ s.kind = "object" THEN DOMAIN s.obj ELSE {}
\* the process can write the file and read it back
CanPersist(s) == s.writable /\ s.readable
AllEqual(q) == \A i \in DOMAIN q, j \in DOMAIN q : q[i] = q[j]

\* C1: capture never raises to its caller, whatever the config file holds and
\* whether telemetry is enabled or not.
C1_CaptureNeverRaises == last.op = "capture" => last.raised = NoExc

\* C2: whatever the wrapped work raises, the stage scope lets exactly that
\* failure (same kind and message) reach its caller, and raises nothing when
\* the work completes.
C2_StageReraisesOriginal == last.op = "stage" => last.raised = WorkExc(last.work)

\* C3: with telemetry enabled every stage scope emits exactly one
\* apimesh_stage_finished event; for any extra properties the event has
\* success = true and no error_type when the work completes, and success =
\* false with error_type = the failure's kind name when the work raises.
C3_StageEmitsOneEvent ==
    (tel.enabled /\ last.op = "stage") =>
        /\ last.started = 1
        /\ tasks # << >>
        /\ LET p == tasks[Len(tasks)].payload IN
             /\ p.event = "apimesh_stage_finished"
             /\ "success" \in DOMAIN p.properties
             /\ IF last.work.kind = ""
                THEN /\ p.properties["success"] = PyBool(TRUE)
                     /\ "error_type" \notin DOMAIN p.properties
                ELSE /\ p.properties["success"] = PyBool(FALSE)
                     /\ DictGet(p.properties, "error_type") = PyStr(last.work.kind)

\* C4 (as claimed): starting from a config file with no install id, all
\* sequential calls of the getter return the same id.
C4_IdempotentAfterCreation == StoredIds(store0) = {} => AllEqual(rets)

\* C4 (amended): starting from a config file with no install id that the
\* process can write and read back, all sequential calls of the getter that
\* return, return the same id.
C4_IdempotentWhenPersisted == (StoredIds(store0) = {} /\ CanPersist(store0)) => AllEqual(rets)

\* C4: two calls on a missing, writable file returned the id the first one wrote
C4_Witness ==
    /\ ~store0.exists /\ CanPersist(store0)
    /\ Len(rets) >= 2
    /\ rets[1] = Uuid(1) /\ rets[2] = Uuid(1)
    /\ StoredIds(store) = {Uuid(1)}

\* C5: a getter call keeps every key of the config file other than the install
\* id, with its value, and does not write the file when an install id was
\* already there.
C5_PreservesOtherKeys ==
    [][/\ \A k \in FileKeys(store) \ {IdKey} :
             k \in FileKeys(store') /\ store'.obj[k] = store.obj[k]
       /\ StoredIds(store) # {} => store' = store]_vars

\* C6: a capture on a telemetry object built by from_env starts a network
\* request only if the enabled flag resolved to true and the resolved API key
\* is non-empty; with APIMESH_TELEMETRY=0 no request is started whatever the
\* API key variables hold.
C6_DispatchOnlyIfEnabled ==
    /\ tasks # << >> => (tel.enabled /\ tel.api_key # << >>)
    /\ env.telemetry = SetTo(<<"0">>) => tasks = << >>
    /\ \A i \in DOMAIN tasks : tasks[i].payload.api_key # << >>

\* C6: flag "1", blank key variable: the request went out with the default key
C6_Witness ==
    /\ env.telemetry = SetTo(<<"1">>)
    /\ env.key = SetTo(<<" ">>)
    /\ tasks # << >>
    /\ tasks[1].posts = 1
    /\ tasks[1].payload.api_key = DEFAULT_POSTHOG_API_KEY

\* C7: every enabled capture starts exactly one background task, and a task
\* makes at most one POST attempt.
C7_OneTaskPerCapture ==
    /\ (last.op = "capture" /\ tel.enabled) => last.started = 1
    /\ \A i \in DOMAIN tasks : tasks[i].posts <= 1

\* C8 (as claimed): telemetry is enabled when APIMESH_TELEMETRY is "1", and
\* has the compiled-in default when the variable is absent or holds any other
\* value (seen by the captures made with the resolved object).
C8_OtherValuesUseDefault ==
    last.op = "capture" =>
        /\ env.telemetry = SetTo(<<"1">>) => tel.enabled
        /\ env.telemetry # SetTo(<<"1">>) => tel.enabled = DEFAULT_TELEMETRY_ENABLED

\* C8 (amended): telemetry is enabled when APIMESH_TELEMETRY is "1", has the
\* compiled-in default when the variable is absent, and is disabled when the
\* variable holds any other value (so no capture starts a task then).
C8_OtherValuesDisable ==
    /\ env.telemetry = SetTo(<<"1">>) => tel.enabled
    /\ ~env.telemetry.set => tel.enabled = DEFAULT_TELEMETRY_ENABLED
    /\ (env.telemetry.set /\ env.telemetry.val # <<"1">>) => (~tel.enabled /\ tasks = << >>)

\* C8: APIMESH_TELEMETRY set to the empty string, and a capture that started nothing
C8_Witness ==
    /\ env.telemetry = SetTo(<< >>)
    /\ last.op = "capture"
    /\ ~tel.enabled
    /\ tasks = << >>

\* C9: a capture on a disabled telemetry object does nothing: the config file
\* is neither read nor written (no install id is created, no uuid drawn), no
\* task is started and nothing is raised; an install id is only ever created
\* with telemetry enabled.
C9_DisabledCaptureIsNoOp ==
    /\ ~tel.enabled =>
          /\ store = store0
          /\ nextId = 1
          /\ tasks = << >>
          /\ last.started = 0
          /\ last.op = "capture" => last.raised = NoExc
    /\ StoredIds(store) # StoredIds(store0) => tel.enabled

\* C9: a disabled capture on a file that would make an enabled one raise
C9_Witness ==
    /\ ~tel.enabled
    /\ last.op = "capture"
    /\ store0.exists /\ store0.kind = "array"
    /\ store = store0

\* C10 (as claimed): in every interleaving of getter calls on one config path,
\* once an install id has been written to the file no later step writes a
\* different one: the file only ever holds one install id.
C10_NeverRegenerated == Cardinality(persisted) <= 1

\* C10 (amended): in every interleaving, a getter call whose read of the config
\* file finds an install id returns exactly that id and writes nothing; only a
\* call whose read found none draws a new id and writes it.
C10_ObservedIdIsKept ==
    \A t \in DOMAIN thr :
        /\ Truthy(thr[t].seen) =>
              thr[t].pc = "done" /\ thr[t].iid = thr[t].seen /\ ~thr[t].wrote
        /\ thr[t].pc \in {"save", "write"} \/ thr[t].wrote =>
              ~Truthy(thr[t].seen) /\ thr[t].iid \notin StoredIds(store0)

\* C10: thread 1 wrote a new id, thread 2 then read it, returned it and wrote nothing
C10_Witness ==
    /\ thr[1].pc = "done" /\ thr[1].wrote /\ thr[1].iid = Uuid(1)
    /\ thr[2].pc = "done" /\ thr[2].seen = Uuid(1) /\ thr[2].iid = Uuid(1)
    /\ ~thr[2].wrote

====
